---- MODULE Spec2Model ----
(***************************************************************************)
(* Model of the SettingGateway core: Gateway (src/lib/settings/Gateway.js) *)
(* and the Schema folder tree it owns (Schema.js).                         *)
(*                                                                         *)
(* JSON values are tagged records so that values of different JavaScript   *)
(* types can be compared:                                                  *)
(*   null -> [t |-> "null"]      "x"  -> [t |-> "str", s |-> "x"]          *)
(*   true -> [t |-> "bool", ..]  [..] -> [t |-> "arr", a |-> <<..>>]       *)
(*   {..} -> [t |-> "obj", o |-> [key |-> value]]                          *)
(* A dotted string s is represented by s.split('.'), a non-empty sequence  *)
(* of segments; the empty string is <<"">>.                                *)
(***************************************************************************)
EXTENDS Integers, Sequences, FiniteSets, TLC

VARIABLES schema, file, defaults, cache, provider, cacheByRef, last, steps,
          calls, held

vars == <<schema, file, defaults, cache, provider, cacheByRef, last, steps,
          calls, held>>

----------------------------------------------------------------------------
(* Bounds *)

NumValues == 1
MaxOps == 2

----------------------------------------------------------------------------
(* JSON values *)

Null == [t |-> "null"]
Str(s) == [t |-> "str", s |-> s]
Bool(b) == [t |-> "bool", b |-> b]
Arr(q) == [t |-> "arr", a |-> q]
Obj(f) == [t |-> "obj", o |-> f]
NoKeys == [k \in {} |-> Null]
EmptyObj == Obj(NoKeys)

IsObj(v) == v.t = "obj"
IsArr(v) == v.t = "arr"
Has(obj, k) == k \in DOMAIN obj.o
Get(obj, k) == obj.o[k]
Put(obj, k, v) == Obj([x \in (DOMAIN obj.o) \cup {k} |-> IF x = k THEN v ELSE obj.o[x]])
Del(obj, k) == Obj([x \in (DOMAIN obj.o) \ {k} |-> obj.o[x]])
One(k, v) == Obj([x \in {k} |-> v])

\* a cache slot or provider slot with no document
Absent == [t |-> "absent"]
\* a cache slot that holds the very object `schema.defaults` (by reference)
DefaultsRef == [t |-> "ref"]

\* JSON.parse(JSON.stringify(v)): a fresh object rebuilt member by member
RECURSIVE JSONclone(_)
JSONclone(v) ==
    IF IsObj(v) THEN Obj([k \in DOMAIN v.o |-> JSONclone(v.o[k])])
    ELSE IF IsArr(v) THEN Arr([i \in 1..Len(v.a) |-> JSONclone(v.a[i])])
    ELSE v

\* `x && x.id ? x.id : x`
Truthy(v) == v \notin {Null, Bool(FALSE), Str("")}
Unwrap(v) == IF IsObj(v) /\ Has(v, "id") /\ Truthy(Get(v, "id")) THEN Get(v, "id") ELSE v

----------------------------------------------------------------------------
(* Names, targets, raw values *)

Targets == {"g1", "g2"}
ValueNames == <<"v1", "v2", "v3">>
Values == {ValueNames[i] : i \in 1..NumValues}

\* alphabetical order of the child names used (String.prototype.localeCompare)
Alphabet == <<"channels", "list", "log", "modlogs", "nope", "users">>
NameRank(n) == CHOOSE i \in 1..Len(Alphabet) : Alphabet[i] = n
localeCompare(a, b) == NameRank(a) - NameRank(b)

RECURSIVE Insert(_, _)
Insert(q, n) ==
    IF q = <<>> THEN <<n>>
    ELSE IF localeCompare(n, Head(q)) < 0 THEN <<n>> \o q
    ELSE <<Head(q)>> \o Insert(Tail(q), n)

RECURSIVE sort(_)
sort(q) == IF q = <<>> THEN <<>> ELSE Insert(sort(Tail(q)), Head(q))

Range(q) == {q[i] : i \in 1..Len(q)}

----------------------------------------------------------------------------
(* Schema tree *)

RootPath == <<"">>

\* a child path that prefixes the path of the root as any other
ChildPathPrefixed(path, key) == Append(path, key)

\* `${this.path === '' ? '' : `${this.path}.`}${key}`
ChildPath(path, key) == IF path = RootPath THEN <<key>> ELSE Append(path, key)

\* SchemaPiece constructor: the attributes of a Field the gateway reads
NewSchemaPiece(options, path, key) ==
    [type |-> options.type, array |-> options.array, default |-> options.default,
     configurable |-> options.configurable, path |-> path, key |-> key]

\* new Schema(client, manager, object, path): the folder (path, type, keys,
\* keyArray and the children attached by name, kids) and its `defaults`
\* object.  A folder declaration is [type |-> "Folder", entries |-> <<[k, v]>>]:
\* its object-valued keys in Object.keys order.
EmptyFolder(path) ==
    [node |-> [type |-> "Folder", path |-> path, keys |-> {}, keyArray |-> <<>>,
               kids |-> [k \in {} |-> Null]],
     defaults |-> EmptyObj]

\* this[key] = child; this.defaults[key] = ...; keys.add(key); keyArray.push(key)
Attach(this, key, child) ==
    [node |-> [this.node EXCEPT
                 !.kids = [x \in (DOMAIN @) \cup {key} |-> IF x = key THEN child.node ELSE @[x]],
                 !.keys = @ \cup {key},
                 !.keyArray = Append(@, key)],
     defaults |-> Put(this.defaults, key, child.defaults)]

RECURSIVE NewSchema(_, _)
RECURSIVE patchKeys(_, _, _)
patchKeys(this, entries, i) ==
    IF i > Len(entries) THEN this
    ELSE LET key == entries[i].k
             path == ChildPath(this.node.path, key)
             child == IF entries[i].v.type = "Folder"
                      THEN NewSchema(entries[i].v, path)
                      ELSE [node |-> NewSchemaPiece(entries[i].v, path, key),
                            defaults |-> NewSchemaPiece(entries[i].v, path, key).default]
         IN patchKeys(Attach(this, key, child), entries, i + 1)

_patch(this, object) ==
    LET patched == patchKeys(this, object.entries, 1)
    IN [patched EXCEPT !.node.keyArray = sort(@)]

NewSchema(object, path) == _patch(EmptyFolder(path), object)

\* Schema#_patch, lines 333-335: a member that is null passes the typeof
\* test and the read of its type throws; the constructor then throws
RECURSIVE ConstructorThrows(_)
ConstructorThrows(object) ==
    \E i \in 1..Len(object.entries) :
        \/ object.entries[i].v = Null
        \/ /\ object.entries[i].v # Null
           /\ object.entries[i].v.type = "Folder"
           /\ ConstructorThrows(object.entries[i].v)

\* a piece declaration with the defaults Schema#addKey fills in
PieceDecl(type, array, configurable) ==
    [type |-> type, array |-> array, configurable |-> configurable,
     default |-> IF array THEN Arr(<<>>) ELSE Null]

\* the schema the gateway is constructed with (Gateway#defaultSchema)
defaultSchema ==
    [type |-> "Folder", entries |-> <<
        [k |-> "users", v |-> PieceDecl("user", TRUE, TRUE)],
        [k |-> "modlogs", v |-> PieceDecl("textchannel", FALSE, TRUE)],
        [k |-> "channels", v |-> [type |-> "Folder", entries |-> <<
            [k |-> "log", v |-> PieceDecl("string", FALSE, FALSE)],
            [k |-> "list", v |-> PieceDecl("user", TRUE, TRUE)]>>]]>>]

----------------------------------------------------------------------------
(* External collaborators, at their interface *)

\* the caller-supplied validate function: resolves an input to a rich object
\* carrying the canonical id, or throws
validate(input) ==
    IF input \in Targets
    THEN [ok |-> TRUE, output |-> Obj([x \in {"id", "name"} |->
                                        IF x = "id" THEN Str(input) ELSE Str("guild")])]
    ELSE [ok |-> FALSE, error |-> "validate"]

\* SchemaPiece#parse(value, guild) -> { data }: the resolver of the piece's
\* type turns an id string into the rich object (channel, user) or keeps the
\* string (string type); null and array defaults pass through; an unresolvable
\* input throws
parse(piece, value) ==
    IF value = Str("bad") THEN [ok |-> FALSE, error |-> "parse"]
    ELSE IF value.t = "str" /\ piece.type \in {"textchannel", "user"}
    THEN [ok |-> TRUE, data |-> Obj([x \in {"id", "name"} |->
                                        IF x = "id" THEN value ELSE Str("rich")])]
    ELSE [ok |-> TRUE, data |-> value]

\* the object parse resolves to, as a JSON value
ParsedObject(parsed) == One("data", parsed.data)

----------------------------------------------------------------------------
(* Gateway: pure part.  A state st is [cache, provider, defaults]; an       *)
(* operation returns [ok, error, st, ...].                                  *)

Fail(st, error) == [ok |-> FALSE, error |-> error, st |-> st]

\* Gateway#getPath
RECURSIVE getPathWalk(_, _, _)
getPathWalk(path, route, i) ==
    IF i > Len(route) THEN [ok |-> TRUE, path |-> path, route |-> route]
    ELSE IF path.type # "Folder"
    THEN [ok |-> FALSE, error |-> "TypeError: path.keys", named |-> <<>>]
    ELSE IF route[i] \notin path.keys
    THEN [ok |-> FALSE, error |-> "does not exist", named |-> SubSeq(route, 1, i - 1)]
    ELSE IF route[i] \notin DOMAIN path.kids
    THEN [ok |-> FALSE, error |-> "TypeError: path is undefined", named |-> <<>>]
    ELSE getPathWalk(path.kids[route[i]], route, i + 1)

getPath(sch, key, avoidUnconfigurable) ==
    LET w == getPathWalk(sch, key, 1) IN
    IF ~w.ok THEN w
    ELSE IF w.path.type = "Folder"
    THEN [ok |-> FALSE, error |-> "choose one of the following keys", named |-> key]
    ELSE IF avoidUnconfigurable /\ w.path.configurable = FALSE
    THEN [ok |-> FALSE, error |-> "not configureable", named |-> w.path.path]
    ELSE w

\* get defaults(): Object.assign(this.schema.defaults, { default: true })
Gateway_defaults(dflt) == Put(dflt, "default", Bool(TRUE))

\* the document a cache slot stands for
SlotDoc(st, slot) == IF slot = DefaultsRef THEN st.defaults ELSE slot

\* Gateway#fetchEntry: cache.get(type, input) || this.defaults.
\* owner says which live object the returned reference is: the schema's
\* defaults object, the object held by the cache, or a private copy.
fetchEntry(st, byRef, input) ==
    LET slot == st.cache[input] IN
    IF slot = Absent
    THEN [doc |-> Gateway_defaults(st.defaults), owner |-> "defaults",
          st |-> [st EXCEPT !.defaults = Gateway_defaults(st.defaults)]]
    ELSE IF slot = DefaultsRef
    THEN [doc |-> st.defaults, owner |-> "defaults", st |-> st]
    ELSE [doc |-> slot, owner |-> IF byRef THEN "cache" ELSE "copy", st |-> st]

\* the effect of mutating in place the object fetchEntry returned
MutateInPlace(st, owner, target, doc) ==
    CASE owner = "defaults" -> [st EXCEPT !.defaults = doc]
      [] owner = "cache" -> [st EXCEPT !.cache[target] = doc]
      [] OTHER -> st

\* a cache.set that stores nothing
cache_set_lost(st, target, doc) == st

cache_set(st, target, doc) == [st EXCEPT !.cache[target] = doc]
provider_update(st, target, doc) == [st EXCEPT !.provider[target] = doc]

\* value at a route of nested objects / replace the value at a route
RECURSIVE GetAt(_, _)
GetAt(obj, route) == IF route = <<>> THEN obj ELSE GetAt(Get(obj, Head(route)), Tail(route))
RECURSIVE ReplaceAt(_, _, _)
ReplaceAt(obj, route, v) ==
    IF route = <<>> THEN v
    ELSE Put(obj, Head(route), ReplaceAt(Get(obj, Head(route)), Tail(route), v))

\* a gateway that never takes a document for the defaults document
IsDefaultNever(doc) == FALSE

\* if (cache.default === true) { cache = JSON.parse(JSON.stringify(cache)); delete cache.default; }
IsDefault(doc) == Has(doc, "default") /\ Get(doc, "default") = Bool(TRUE)
CloneDefault(doc) == Del(JSONclone(doc), "default")

Prefix(route) == SubSeq(route, 1, Len(route) - 1)
Last(route) == route[Len(route)]

\* Gateway#_updateOne, lines 219-223: the loop over the route and the leaf
\* assignment; a missing intermediate is created but not entered
RECURSIVE updateOneWalk(_, _, _, _)
updateOneWalk(cache_, route, i, parsedID) ==
    IF i > Len(route) - 1 THEN Put(cache_, Last(route), parsedID)
    ELSE IF ~Has(cache_, route[i])
    THEN updateOneWalk(Put(cache_, route[i], EmptyObj), route, i + 1, parsedID)
    ELSE Put(cache_, route[i], updateOneWalk(Get(cache_, route[i]), route, i + 1, parsedID))

\* Gateway#_updateArray, lines 262-265 (and _reset, line 180): every missing
\* intermediate is created and entered; yields the document after the loop
RECURSIVE createWalk(_, _, _)
createWalk(cache_, route, i) ==
    IF i > Len(route) - 1 THEN cache_
    ELSE LET made == IF Has(cache_, route[i]) THEN cache_ ELSE Put(cache_, route[i], EmptyObj)
         IN Put(made, route[i], createWalk(Get(made, route[i]), route, i + 1))

\* Array.prototype.includes / indexOf / splice(index, 1) / push
includes(q, v) == \E i \in 1..Len(q) : q[i] = v
indexOf(q, v) == IF includes(q, v) THEN (CHOOSE i \in 1..Len(q) : q[i] = v /\ \A j \in 1..(i-1) : q[j] # v) ELSE 0
splice1(q, index) == SubSeq(q, 1, index - 1) \o SubSeq(q, index + 1, Len(q))
push(q, v) == Append(q, v)

\* Gateway#_updateArray
_updateArray(st, sch, byRef, target, action, key, value, avoidUnconfigurable) ==
    LET gp == getPath(sch, key, avoidUnconfigurable) IN
    IF ~gp.ok THEN Fail(st, gp.error)
    ELSE IF gp.path.array = FALSE THEN Fail(st, "COMMAND_CONF_KEY_NOT_ARRAY")
    ELSE
    LET parsed == parse(gp.path, value) IN
    IF ~parsed.ok THEN Fail(st, parsed.error)
    ELSE
    LET parsedID == Unwrap(parsed.data)
        f == fetchEntry(st, byRef, target)
        owner == IF IsDefault(f.doc) THEN "own" ELSE f.owner
        start == IF IsDefault(f.doc) THEN CloneDefault(f.doc) ELSE f.doc
        fullObject == createWalk(start, gp.route, 1)
        \* `cache` after the loop: the object that holds the leaf key
        cursor == GetAt(fullObject, Prefix(gp.route))
        walked == MutateInPlace(f.st, owner, target, fullObject)
        done(q) == LET settings == ReplaceAt(fullObject, Prefix(gp.route), Arr(q))
                   IN [ok |-> TRUE, error |-> "",
                       st |-> cache_set(MutateInPlace(f.st, owner, target, settings), target, settings),
                       settings |-> settings, parsed |-> parsed, path |-> gp.path]
    IN IF action = "add"
       THEN IF ~IsArr(cursor) THEN Fail(walked, "TypeError: cache.includes is not a function")
            ELSE IF includes(cursor.a, parsedID) THEN Fail(walked, "already exists")
            ELSE done(push(cursor.a, parsedID))
       ELSE IF ~IsArr(cursor) THEN Fail(walked, "TypeError: cache.indexOf is not a function")
            ELSE IF indexOf(cursor.a, parsedID) = 0 THEN Fail(walked, "does not exist")
            ELSE done(splice1(cursor.a, indexOf(cursor.a, parsedID)))

\* a gateway whose _updateOne never hands an array piece to _updateArray
delegatesNever(path) == FALSE

\* Gateway#_updateOne, line 208: an array piece is handed to _updateArray
delegatesToArray(path) == path.array = TRUE

\* Gateway#_updateOne
_updateOne(st, sch, byRef, target, key, value, avoidUnconfigurable) ==
    LET gp == getPath(sch, key, avoidUnconfigurable) IN
    IF ~gp.ok THEN Fail(st, gp.error)
    ELSE IF delegatesToArray(gp.path)
    THEN _updateArray(st, sch, byRef, target, "add", key, value, avoidUnconfigurable)
    ELSE
    LET parsed == parse(gp.path, value) IN
    IF ~parsed.ok THEN Fail(st, parsed.error)
    ELSE
    LET parsedID == Unwrap(parsed.data)
        f == fetchEntry(st, byRef, target)
        owner == IF IsDefault(f.doc) THEN "own" ELSE f.owner
        start == IF IsDefault(f.doc) THEN CloneDefault(f.doc) ELSE f.doc
        fullObject == updateOneWalk(start, gp.route, 1, parsedID)
    IN [ok |-> TRUE, error |-> "",
        st |-> cache_set(MutateInPlace(f.st, owner, target, fullObject), target, fullObject),
        settings |-> fullObject, parsed |-> parsed, path |-> gp.path]

\* Gateway#_reset: no clone of a defaults entry, no cache.set; `result` is
\* the object the loop ended in
_reset(st, byRef, target, route, parsed) ==
    LET f == fetchEntry(st, byRef, target)
        parsedID == Unwrap(ParsedObject(parsed))
        walked == createWalk(f.doc, route, 1)
        result == Put(GetAt(walked, Prefix(route)), Last(route), parsedID)
        whole == ReplaceAt(walked, Prefix(route), result)
    IN [st |-> MutateInPlace(f.st, f.owner, target, whole), result |-> result, parsedID |-> parsedID]

\* the target of a public operation: validate(target), then `.id` if any
resolveTarget(input) ==
    LET v == validate(input) IN
    IF v.ok THEN [ok |-> TRUE, id |-> Unwrap(v.output).s] ELSE v

\* Gateway#updateOne
updateOne(st, sch, byRef, input, key, value, avoidUnconfigurable) ==
    LET tg == resolveTarget(input) IN
    IF ~tg.ok THEN Fail(st, tg.error)
    ELSE LET r == _updateOne(st, sch, byRef, tg.id, key, value, avoidUnconfigurable) IN
         IF ~r.ok THEN r
         ELSE [ok |-> TRUE, error |-> "", st |-> provider_update(r.st, tg.id, r.settings),
               value |-> r.parsed.data, path |-> r.path]

\* Gateway#updateArray
updateArray(st, sch, byRef, input, action, key, value, avoidUnconfigurable) ==
    IF action \notin {"add", "remove"} THEN Fail(st, "TypeError: action")
    ELSE
    LET tg == resolveTarget(input) IN
    IF ~tg.ok THEN Fail(st, tg.error)
    ELSE LET r == _updateArray(st, sch, byRef, tg.id, action, key, value, avoidUnconfigurable) IN
         IF ~r.ok THEN r
         ELSE [ok |-> TRUE, error |-> "", st |-> provider_update(r.st, tg.id, r.settings),
               value |-> r.parsed.data, path |-> r.path]

\* Gateway#reset
reset(st, sch, byRef, input, key, avoidUnconfigurable) ==
    LET tg == resolveTarget(input) IN
    IF ~tg.ok THEN Fail(st, tg.error)
    ELSE
    LET gp == getPath(sch, key, avoidUnconfigurable) IN
    IF ~gp.ok THEN Fail(st, gp.error)
    ELSE
    LET parsed == parse(gp.path, gp.path.default) IN
    IF ~parsed.ok THEN Fail(st, parsed.error)
    ELSE LET r == _reset(st, byRef, tg.id, gp.route, parsed) IN
         [ok |-> TRUE, error |-> "", st |-> provider_update(r.st, tg.id, r.result),
          value |-> parsed.data, path |-> gp.path]

\* cache.create that stores nothing
cache_create_lost(st, target, slot) == st

\* cache.create(type, target, data)
cache_create(st, target, slot) == [st EXCEPT !.cache[target] = slot]

\* provider.create(type, target, data): a provider either overwrites the
\* document of an id it already holds or rejects the call (rejects)
provider_create(st, target, doc, rejects) ==
    IF rejects /\ st.provider[target] # Absent
    THEN [ok |-> FALSE, st |-> st]
    ELSE [ok |-> TRUE, st |-> [st EXCEPT !.provider[target] = doc]]

\* Gateway#createEntry; data = DefaultsRef stands for the omitted argument
createEntry(st, byRef, input, data, rejects) ==
    LET tg == resolveTarget(input) IN
    IF ~tg.ok THEN Fail(st, tg.error)
    ELSE
    LET usesDefaults == (data = DefaultsRef)
        dflt == IF usesDefaults THEN Gateway_defaults(st.defaults) ELSE st.defaults
        doc == IF usesDefaults THEN dflt ELSE data
        slot == IF usesDefaults /\ byRef THEN DefaultsRef ELSE doc
        created == provider_create([st EXCEPT !.defaults = dflt], tg.id, doc, rejects)
    IN IF ~created.ok THEN Fail(created.st, "provider conflict")
       ELSE [ok |-> TRUE, error |-> "", st |-> cache_create(created.st, tg.id, slot)]

\* a cache.delete that removes nothing
cache_delete_lost(st, target) == st

\* cache.delete(type, input) / provider.delete(type, input): no existence check
cache_delete(st, target) == [st EXCEPT !.cache[target] = Absent]
provider_delete(st, target) == [st EXCEPT !.provider[target] = Absent]

\* Gateway#deleteEntry: the input is used as the key as it is
deleteEntry(st, input) ==
    [ok |-> TRUE, error |-> "", st |-> cache_delete(provider_delete(st, input), input)]

\* Gateway#getEntry: the document handed to the caller and the state after
getEntry(st, input) ==
    IF input = "default" \/ st.cache[input] = Absent
    THEN [doc |-> Gateway_defaults(st.defaults),
          st |-> [st EXCEPT !.defaults = Gateway_defaults(st.defaults)]]
    ELSE [doc |-> SlotDoc(st, st.cache[input]), st |-> st]

----------------------------------------------------------------------------
(* Gateway#sync *)

\* Gateway#sync(input = null), lines 146-150: every document the provider
\* returns is set in the cache under its own id
RECURSIVE syncAll(_, _)
syncAll(st, ids) ==
    IF ids = {} THEN st
    ELSE LET id == CHOOSE x \in ids : TRUE
         IN syncAll(cache_set(st, id, st.provider[id]), ids \ {id})

\* Gateway#sync: with an input, line 151 reads `target` inside its own
\* initializer, which throws before validate is called
sync(st, input) ==
    IF input = "null"
    THEN [ok |-> TRUE, error |-> "",
          st |-> syncAll(st, {id \in DOMAIN st.provider : st.provider[id] # Absent})]
    ELSE Fail(st, "ReferenceError: target")

----------------------------------------------------------------------------
(* Schema: structural mutation.  A schema state sc is [schema, file, st]:   *)
(* the root folder, the persisted declaration and the gateway's stores; a   *)
(* folder is addressed by its path.                                         *)

\* the route from the root to the folder with this path
FolderRoute(path) == IF path = RootPath THEN <<>> ELSE path

RECURSIVE NodeAt(_, _)
NodeAt(node, route) ==
    IF route = <<>> THEN node ELSE NodeAt(node.kids[Head(route)], Tail(route))

RECURSIVE IsFolderAt(_, _)
IsFolderAt(node, route) ==
    IF node.type # "Folder" THEN FALSE
    ELSE IF route = <<>> THEN TRUE
    ELSE IF Head(route) \notin DOMAIN node.kids THEN FALSE
    ELSE IsFolderAt(node.kids[Head(route)], Tail(route))

RECURSIVE ReplaceNode(_, _, _)
ReplaceNode(node, route, new) ==
    IF route = <<>> THEN new
    ELSE [node EXCEPT !.kids[Head(route)] = ReplaceNode(@, Tail(route), new)]

\* SchemaPiece#toJSON: the declaration of the piece
pieceToJSON(piece) ==
    [type |-> piece.type, array |-> piece.array, configurable |-> piece.configurable,
     default |-> piece.default]

\* Schema#toJSON: { type: 'Folder' } and one member per name of keyArray, in
\* the order of keyArray
RECURSIVE toJSON(_)
toJSON(node) ==
    IF node.type # "Folder" THEN pieceToJSON(node)
    ELSE [type |-> "Folder",
          entries |-> [i \in 1..Len(node.keyArray) |->
                         [k |-> node.keyArray[i], v |-> toJSON(node.kids[node.keyArray[i]])]]]

\* Schema#toJSON throws when a name of keyArray has no child attached
RECURSIVE toJSONThrows(_)
toJSONThrows(node) ==
    /\ node.type = "Folder"
    /\ \E i \in 1..Len(node.keyArray) :
          \/ node.keyArray[i] \notin DOMAIN node.kids
          \/ /\ node.keyArray[i] \in DOMAIN node.kids
             /\ toJSONThrows(node.kids[node.keyArray[i]])

\* the names every Schema instance defines by itself
SchemaMembers ==
    {"client", "manager", "path", "type", "defaults", "keys", "keyArray",
     "addFolder", "removeFolder", "hasKey", "addKey", "removeKey", "force", "toJSON",
     "getDefaults", "constructor", "toString"}

\* a folder on which no name is ever taken
isDefinedNever(this, key) == FALSE

\* typeof this[key] !== 'undefined'
isDefined(this, key) == key \in DOMAIN this.kids \/ key \in SchemaMembers

\* Set#add, Set#delete
keys_add(keys, key) == keys \cup {key}
keys_delete(keys, key) == keys \ {key}

\* Schema#force, lines 239-242, for one document: walk this.path.split('.')
\* from the document, then set or delete the key on the object reached.
\* Absent stands for `undefined`.
RECURSIVE forceWalk(_, _, _)
forceWalk(object, path, i) ==
    IF i > Len(path) THEN [ok |-> TRUE, object |-> object]
    ELSE IF object \in {Absent, Null} THEN [ok |-> FALSE, object |-> Absent]
    ELSE IF IsObj(object) /\ Has(object, path[i])
    THEN forceWalk(Get(object, path[i]), path, i + 1)
    ELSE forceWalk(Absent, path, i + 1)

forceOne(obj, path, action, key, value) ==
    LET w == forceWalk(obj, path, 1) IN
    IF ~w.ok \/ w.object \in {Absent, Null} THEN [ok |-> FALSE, obj |-> obj]
    ELSE IF IsObj(w.object)
    THEN [ok |-> TRUE,
          obj |-> ReplaceAt(obj, path, IF action = "delete" THEN Del(w.object, key)
                                       ELSE Put(w.object, key, value))]
    ELSE IF IsArr(w.object) \/ action = "delete" THEN [ok |-> TRUE, obj |-> obj]
    ELSE [ok |-> FALSE, obj |-> obj]

\* Schema#force on a gateway without sql: every document of the provider is
\* rewritten on its own; the call fails when the rewrite of a document throws
force(sc, this, action, key) ==
    LET thisDefaults == GetAt(sc.st.defaults, FolderRoute(this.path))
        value == IF action = "add" THEN Get(thisDefaults, key) ELSE Null
        path == this.path
        ids == {id \in DOMAIN sc.st.provider : sc.st.provider[id] # Absent}
        one(id) == forceOne(sc.st.provider[id], path, action, key, value)
    IN [ok |-> \A id \in ids : one(id).ok,
        error |-> IF \A id \in ids : one(id).ok THEN "" ELSE "TypeError: force",
        sc |-> [sc EXCEPT !.st.provider =
                   [id \in DOMAIN @ |-> IF id \in ids THEN one(id).obj ELSE @[id]]]]

\* String#toLowerCase on the type names used
toLowerCase(s) == IF s = "String" THEN "string" ELSE IF s = "User" THEN "user" ELSE s

\* client.settings.types
SupportedTypes == {"string", "user", "textchannel", "boolean"}

\* the outcome of a schema operation that throws before it changes anything
Throw(sc, error) == [ok |-> FALSE, error |-> error, sc |-> sc]

\* fs.outputJSONAtomic(manager.filePath, manager.schema.toJSON())
persist(sc) == [sc EXCEPT !.file = toJSON(sc.schema)]

\* the folder `this` of a schema operation written back, with its defaults
WithFolder(sc, path, this, thisDefaults) ==
    [sc EXCEPT !.schema = ReplaceNode(@, FolderRoute(path), this),
               !.st.defaults = ReplaceAt(@, FolderRoute(path), thisDefaults)]

\* the rest of a public schema operation: persist, then force if asked
thenForce(sc, path, action, key, forced) ==
    IF toJSONThrows(sc.schema) THEN [ok |-> FALSE, error |-> "TypeError: toJSON", sc |-> sc]
    ELSE IF ~forced THEN [ok |-> TRUE, error |-> "", sc |-> persist(sc)]
    ELSE CHOOSE r \in {force(saved, NodeAt(saved.schema, FolderRoute(path)), action, key) :
                         saved \in {persist(sc)}} : TRUE

\* Schema#_addKey
_addKey(sc, path, key, options) ==
    LET this == NodeAt(sc.schema, FolderRoute(path))
        thisDefaults == GetAt(sc.st.defaults, FolderRoute(path))
    IN WithFolder(sc, path,
           [this EXCEPT
              !.keys = keys_add(@, key),
              !.keyArray = sort(push(@, key)),
              !.kids = [x \in (DOMAIN @) \cup {key} |->
                          IF x = key THEN NewSchemaPiece(options, ChildPath(path, key), key)
                          ELSE @[x]]],
           Put(thisDefaults, key, options.default))

\* Schema#addKey.  options is null or [type, array, default, configurable],
\* a member being Absent when the caller left it out.
addKey(sc, path, key, options, forced) ==
    LET this == NodeAt(sc.schema, FolderRoute(path)) IN
    IF isDefined(this, key) THEN Throw(sc, "already exists")
    ELSE IF options = Null THEN Throw(sc, "You must pass an options argument")
    ELSE IF options.type.t # "str" THEN Throw(sc, "The option type is required")
    ELSE IF toLowerCase(options.type.s) \notin SupportedTypes THEN Throw(sc, "not supported")
    ELSE IF options.array # Absent /\ options.array.t # "bool"
    THEN Throw(sc, "The option array must be a boolean")
    ELSE IF options.configurable # Absent /\ options.configurable.t # "bool"
    THEN Throw(sc, "The option configurable must be a boolean")
    ELSE IF options.array = Bool(TRUE) /\ options.default # Absent /\ ~IsArr(options.default)
    THEN Throw(sc, "The option default must be an array")
    ELSE
    LET type == toLowerCase(options.type.s)
        array == options.array = Bool(TRUE)
        default == IF options.default # Absent THEN options.default
                   ELSE IF array THEN Arr(<<>>)
                   ELSE IF type = "boolean" THEN Bool(FALSE) ELSE Null
        filled == [type |-> type, array |-> array, default |-> default,
                   configurable |-> options.configurable # Bool(FALSE)]
    IN thenForce(_addKey(sc, path, key, filled), path, "add", key, forced)

\* Schema#_removeKey
_removeKey(sc, path, key) ==
    LET this == NodeAt(sc.schema, FolderRoute(path))
        thisDefaults == GetAt(sc.st.defaults, FolderRoute(path))
        index == indexOf(this.keyArray, key)
    IN IF index = 0 THEN Throw(sc, "The key does not exist.")
       ELSE [ok |-> TRUE, error |-> "",
             sc |-> WithFolder(sc, path,
                       [this EXCEPT
                          !.keys = keys_delete(@, key),
                          !.keyArray = splice1(@, index),
                          !.kids = [x \in (DOMAIN @) \ {key} |-> @[x]]],
                       Del(thisDefaults, key))]

\* Schema#removeKey
removeKey(sc, path, key, forced) ==
    LET this == NodeAt(sc.schema, FolderRoute(path)) IN
    IF key \notin this.keys THEN Throw(sc, "does not exist")
    ELSE LET r == _removeKey(sc, path, key) IN
         IF ~r.ok THEN r ELSE thenForce(r.sc, path, "delete", key, forced)

\* Schema#addFolder: the name is added to keys and pushed to keyArray, which
\* is not sorted, before the folder is constructed
addFolder(sc, path, key, object, forced) ==
    LET this == NodeAt(sc.schema, FolderRoute(path))
        thisDefaults == GetAt(sc.st.defaults, FolderRoute(path))
        folder == NewSchema(object, ChildPath(path, key))
    IN IF isDefined(this, key) THEN Throw(sc, "already exists")
       ELSE IF ConstructorThrows(object)
       THEN [ok |-> FALSE, error |-> "TypeError: object[key].type",
             sc |-> WithFolder(sc, path,
                       [this EXCEPT !.keys = keys_add(@, key), !.keyArray = push(@, key)],
                       thisDefaults)]
       ELSE thenForce(
                WithFolder(sc, path,
                    [this EXCEPT
                       !.keys = keys_add(@, key),
                       !.keyArray = push(@, key),
                       !.kids = [x \in (DOMAIN @) \cup {key} |->
                                   IF x = key THEN folder.node ELSE @[x]]],
                    Put(thisDefaults, key, folder.defaults)),
                path, "add", key, forced)

\* Schema#removeFolder
removeFolder(sc, path, key, forced) ==
    LET this == NodeAt(sc.schema, FolderRoute(path)) IN
    IF key \notin this.keys THEN Throw(sc, "does not exist")
    ELSE IF key \notin DOMAIN this.kids THEN Throw(sc, "TypeError: this[key].type")
    ELSE IF this.kids[key].type # "Folder" THEN Throw(sc, "is not Folder type")
    ELSE LET r == _removeKey(sc, path, key) IN
         IF ~r.ok THEN r ELSE thenForce(r.sc, path, "delete", key, forced)

----------------------------------------------------------------------------
(* The state machine *)

St == [cache |-> cache, provider |-> provider, defaults |-> defaults]
Sc == [schema |-> schema, file |-> file, st |-> St]

\* inputs of the operations
TargetInputs == Targets \cup {"nobody"}
Keys == {<<"modlogs">>, <<"users">>, <<"channels", "log">>, <<"channels", "list">>,
         <<"channels">>, <<"nope">>, <<"channels", "nope">>}
RawValues == {Str(v) : v \in Values} \cup {Str("bad")}
CreateDocs == {EmptyObj} \cup {One("users", Arr(<<Str(v)>>)) : v \in Values}

\* The calls taken as steps: when a stage of a call fails, the inputs that
\* only later stages read are fixed to one representative (target, then key,
\* then value).  The properties below range over all inputs.
OneValue == Str(ValueNames[1])
KeysFor(input) == IF input \in Targets THEN Keys ELSE {<<"users">>}
\* the array piece inside a folder is reached through updateArray; updateOne
\* hands an array piece to the same code and reset treats every piece alike
OwnKeys == Keys \ {<<"channels", "list">>}
ValuesFor(input, key, wanted) ==
    IF input \in Targets /\ getPath(schema, key, FALSE).ok
       /\ getPath(schema, key, FALSE).path.array \in wanted
    THEN RawValues ELSE {OneValue}
ActionsFor(input, key) ==
    IF input \in Targets /\ getPath(schema, key, FALSE).ok
       /\ getPath(schema, key, FALSE).path.array
    THEN {"add", "remove"} ELSE {"add"}
DocsFor(input) == IF input \in Targets THEN CreateDocs \cup {DefaultsRef} ELSE {DefaultsRef}
\* a provider can reject the creation of a document it already holds
RejectsFor(input) ==
    IF input \in Targets /\ provider[input] # Absent THEN BOOLEAN ELSE {FALSE}
\* avoidUnconfigurable matters for the pieces that are not configurable
Avoids(key) == IF key = <<"channels", "log">> THEN BOOLEAN ELSE {FALSE}

\* inputs of the schema operations: the folder operated on, the names
\* added and removed, the options of a new piece and the declaration of a
\* new folder
FolderPaths == {RootPath, <<"channels">>}
AddNames == {"nope", "users"}
RemoveNames == {"users", "channels", "log"}
StringOptions ==
    [type |-> Str("String"), array |-> Absent, default |-> Absent, configurable |-> Absent]
AddOptions == {StringOptions, Null}
EmptyDecl == [type |-> "Folder", entries |-> <<>>]
FolderDecls ==
    {EmptyDecl,
     [type |-> "Folder", entries |-> <<[k |-> "list", v |-> PieceDecl("string", FALSE, TRUE)]>>],
     [type |-> "Folder", entries |-> <<[k |-> "list", v |-> Null]>>]}

\* as above: a call that fails before it reads an input takes one
\* representative of it, and `forced` is both ways only where documents exist
Taken(path, key) == isDefined(NodeAt(schema, FolderRoute(path)), key)
OptionsFor(path, key) == IF Taken(path, key) THEN {StringOptions} ELSE AddOptions
DeclsFor(path, key) == IF Taken(path, key) THEN {EmptyDecl} ELSE FolderDecls
Held(path, key) == key \in NodeAt(schema, FolderRoute(path)).keys
ForcedFor(reached) ==
    IF reached /\ \E id \in Targets : provider[id] # Absent THEN BOOLEAN ELSE {TRUE}

NoCall == [op |-> "none", input |-> "", action |-> "", key |-> <<>>, value |-> Null,
           avoid |-> FALSE, ok |-> TRUE, error |-> "", ret |-> Null,
           folder |-> <<>>, forced |-> FALSE]

Call(op, input, action, key, value, avoid, r, ret) ==
    [op |-> op, input |-> input, action |-> action, key |-> key, value |-> value,
     avoid |-> avoid, ok |-> r.ok, error |-> r.error, ret |-> ret,
     folder |-> <<>>, forced |-> FALSE]

\* a call of a schema operation on the folder with this path
SchemaCall(op, path, key, value, forced, r) ==
    [NoCall EXCEPT !.op = op, !.folder = path, !.key = <<key>>, !.value = value,
                   !.forced = forced, !.ok = r.ok, !.error = r.error]

\* the calls in flight when operations overlap: each caller's position in
\* its call (pc) and the locals of the call.  `ref` names the object the local
\* `cache` refers to: "defaults", the object the cache held at the start
\* ("init"), or the clone made by a caller (the caller's name), whose content
\* is that caller's doc.  held names the object in a target's cache slot when
\* the cache hands out references.
Callers == {"a", "b"}
Idle == [pc |-> "idle", input |-> "", key |-> <<>>, value |-> Null, avoid |-> FALSE,
         target |-> "", array |-> FALSE, parsedID |-> Null, ref |-> "none",
         doc |-> Absent, found |-> FALSE, error |-> ""]

Install(st) ==
    /\ steps' = steps + 1
    /\ cache' = st.cache
    /\ provider' = st.provider
    /\ defaults' = st.defaults
    /\ UNCHANGED <<schema, file, cacheByRef, calls, held>>

InstallSc(sc) ==
    /\ steps' = steps + 1
    /\ schema' = sc.schema
    /\ file' = sc.file
    /\ cache' = sc.st.cache
    /\ provider' = sc.st.provider
    /\ defaults' = sc.st.defaults
    /\ UNCHANGED <<cacheByRef, calls, held>>

Init ==
    /\ schema = NewSchema(defaultSchema, RootPath).node
    /\ file = defaultSchema
    /\ defaults = NewSchema(defaultSchema, RootPath).defaults
    /\ cache = [t \in Targets |-> Absent]
    /\ provider = [t \in Targets |-> Absent]
    /\ cacheByRef \in BOOLEAN
    /\ last = NoCall
    /\ steps = 0
    /\ calls = [c \in Callers |-> Idle]
    /\ held = [t \in Targets |-> "none"]

DoCreateEntry ==
    /\ steps < MaxOps
    /\ \E input \in TargetInputs, data \in CreateDocs \cup {DefaultsRef}, rejects \in BOOLEAN :
           /\ data \in DocsFor(input)
           /\ rejects \in RejectsFor(input)
           /\ \E r \in {createEntry(St, cacheByRef, input, data, rejects)} :
              /\ Install(r.st)
              /\ last' = Call("createEntry", input, "", <<>>, data, FALSE, r, Null)

DoDeleteEntry ==
    /\ steps < MaxOps
    /\ \E input \in Targets :
           \E r \in {deleteEntry(St, input)} :
           /\ Install(r.st)
           /\ last' = Call("deleteEntry", input, "", <<>>, Null, FALSE, r, Null)

DoGetEntry ==
    /\ steps < MaxOps
    /\ \E input \in Targets \cup {"default"} :
           \E g \in {getEntry(St, input)} :
           /\ Install(g.st)
           /\ last' = [NoCall EXCEPT !.op = "getEntry", !.input = input, !.ret = g.doc]

DoUpdateOne ==
    /\ steps < MaxOps
    /\ \E input \in TargetInputs, key \in OwnKeys, value \in RawValues, avoid \in BOOLEAN :
           /\ key \in KeysFor(input)
           /\ value \in ValuesFor(input, key, BOOLEAN)
           /\ avoid \in Avoids(key)
           /\ \E r \in {updateOne(St, schema, cacheByRef, input, key, value, avoid)} :
              /\ Install(r.st)
              /\ last' = Call("updateOne", input, "", key, value, avoid, r,
                              IF r.ok THEN r.value ELSE Null)

DoUpdateArray ==
    /\ steps < MaxOps
    /\ \E input \in TargetInputs, action \in {"add", "remove"}, key \in Keys,
          value \in RawValues, avoid \in BOOLEAN :
           /\ key \in KeysFor(input)
           /\ action \in ActionsFor(input, key)
           /\ value \in ValuesFor(input, key, {TRUE})
           /\ avoid \in Avoids(key)
           /\ \E r \in {updateArray(St, schema, cacheByRef, input, action, key, value, avoid)} :
              /\ Install(r.st)
              /\ last' = Call("updateArray", input, action, key, value, avoid, r,
                              IF r.ok THEN r.value ELSE Null)

DoReset ==
    /\ steps < MaxOps
    /\ \E input \in TargetInputs, key \in OwnKeys, avoid \in BOOLEAN :
           /\ key \in KeysFor(input)
           /\ avoid \in Avoids(key)
           /\ \E r \in {reset(St, schema, cacheByRef, input, key, avoid)} :
              /\ Install(r.st)
              /\ last' = Call("reset", input, "", key, Null, avoid, r,
                              IF r.ok THEN r.value ELSE Null)

DoSync ==
    /\ steps < MaxOps
    /\ \E input \in Targets \cup {"null"} :
           \E r \in {sync(St, input)} :
           /\ Install(r.st)
           /\ last' = Call("sync", input, "", <<>>, Null, FALSE, r, Null)

DoAddKey ==
    /\ steps < MaxOps
    /\ \E path \in FolderPaths, key \in AddNames, options \in AddOptions, forced \in BOOLEAN :
           /\ IsFolderAt(schema, FolderRoute(path))
           /\ options \in OptionsFor(path, key)
           /\ forced \in ForcedFor(~Taken(path, key) /\ options # Null)
           /\ \E r \in {addKey(Sc, path, key, options, forced)} :
              /\ InstallSc(r.sc)
              /\ last' = SchemaCall("addKey", path, key, options, forced, r)

DoRemoveKey ==
    /\ steps < MaxOps
    /\ \E path \in FolderPaths, key \in RemoveNames, forced \in BOOLEAN :
           /\ IsFolderAt(schema, FolderRoute(path))
           /\ forced \in ForcedFor(Held(path, key))
           /\ \E r \in {removeKey(Sc, path, key, forced)} :
              /\ InstallSc(r.sc)
              /\ last' = SchemaCall("removeKey", path, key, Null, forced, r)

DoAddFolder ==
    /\ steps < MaxOps
    /\ \E path \in FolderPaths, key \in AddNames, object \in FolderDecls, forced \in BOOLEAN :
           /\ IsFolderAt(schema, FolderRoute(path))
           /\ object \in DeclsFor(path, key)
           /\ forced \in ForcedFor(~Taken(path, key) /\ ~ConstructorThrows(object))
           /\ \E r \in {addFolder(Sc, path, key, object, forced)} :
              /\ InstallSc(r.sc)
              /\ last' = SchemaCall("addFolder", path, key, object, forced, r)

DoRemoveFolder ==
    /\ steps < MaxOps
    /\ \E path \in FolderPaths, key \in RemoveNames, forced \in BOOLEAN :
           /\ IsFolderAt(schema, FolderRoute(path))
           /\ forced \in ForcedFor(Held(path, key))
           /\ \E r \in {removeFolder(Sc, path, key, forced)} :
              /\ InstallSc(r.sc)
              /\ last' = SchemaCall("removeFolder", path, key, Null, forced, r)

Next ==
    \/ DoCreateEntry
    \/ DoDeleteEntry
    \/ DoGetEntry
    \/ DoUpdateOne
    \/ DoUpdateArray
    \/ DoReset
    \/ DoSync
    \/ DoAddKey
    \/ DoRemoveKey
    \/ DoAddFolder
    \/ DoRemoveFolder

Spec == Init /\ [][Next]_vars

----------------------------------------------------------------------------
(* Overlapping updateOne calls.  updateOne is an async function: a call     *)
(* runs up to its next await and another call may run in between.  One      *)
(* action per stretch between two awaits.                                   *)

\* the documents a gateway holds once its entries have been written
SettledDoc == NewSchema(defaultSchema, RootPath).defaults

ConcKeys == {<<"modlogs">>, <<"channels", "log">>, <<"users">>, <<"nope">>}

\* the piece getPath returned for the key of a call
PieceAt(key) == getPath(schema, key, FALSE).path

\* the content of the object a reference names
Content(ref, target) ==
    CASE ref = "defaults" -> defaults
      [] ref = "init" -> cache[target]
      [] OTHER -> calls[ref].doc

\* mutation in place of the object a reference names: what the callers hold
WithContent(cs, ref, doc) ==
    IF ref \in Callers THEN [cs EXCEPT ![ref].doc = doc] ELSE cs

Stays == UNCHANGED <<schema, file, cacheByRef, last, steps>>

\* Gateway#updateOne, lines 197-200: up to `await this.validate(target)`
CallUpdateOne(c) ==
    /\ calls[c].pc = "idle"
    /\ \E input \in TargetInputs, key \in ConcKeys, value \in RawValues :
           /\ key \in KeysFor(input)
           /\ value \in ValuesFor(input, key, BOOLEAN)
           /\ calls' = [calls EXCEPT ![c] = [Idle EXCEPT !.pc = "validate", !.input = input,
                                                        !.key = key, !.value = value]]
    /\ UNCHANGED <<cache, provider, defaults, held>>
    /\ Stays

\* lines 200-201 and _updateOne 207-210 (or, for an array piece, _updateArray
\* 250-253): the target, the path, up to `await path.parse(value, guild)`
AfterValidate(c) ==
    /\ calls[c].pc = "validate"
    /\ LET me == calls[c]
           tg == resolveTarget(me.input)
           gp == getPath(schema, me.key, me.avoid)
       IN calls' = [calls EXCEPT ![c] =
              IF ~tg.ok THEN [me EXCEPT !.pc = "failed", !.error = tg.error]
              ELSE IF ~gp.ok THEN [me EXCEPT !.pc = "failed", !.error = gp.error, !.target = tg.id]
              ELSE [me EXCEPT !.pc = "parse", !.target = tg.id,
                              !.array = delegatesToArray(gp.path)]]
    /\ UNCHANGED <<cache, provider, defaults, held>>
    /\ Stays

\* lines 210-212 (253-255): the parsed value, up to `await this.fetchEntry(target)`;
\* fetchEntry reads the cache slot, or the defaults getter, before it suspends
AfterParse(c) ==
    /\ calls[c].pc = "parse"
    /\ LET me == calls[c]
           parsed == parse(PieceAt(me.key), me.value)
           slot == cache[me.target]
       IN IF ~parsed.ok
          THEN /\ calls' = [calls EXCEPT ![c] = [me EXCEPT !.pc = "failed", !.error = parsed.error]]
               /\ UNCHANGED defaults
          ELSE IF slot = Absent
          THEN /\ calls' = [calls EXCEPT ![c] = [me EXCEPT !.pc = "fetch", !.ref = "defaults",
                                                          !.parsedID = Unwrap(parsed.data)]]
               /\ defaults' = Gateway_defaults(defaults)
          ELSE /\ calls' = [calls EXCEPT ![c] =
                      [me EXCEPT !.pc = "fetch", !.found = TRUE, !.parsedID = Unwrap(parsed.data),
                                 !.ref = IF cacheByRef THEN held[me.target] ELSE c,
                                 !.doc = IF cacheByRef THEN me.doc ELSE slot]]
               /\ UNCHANGED defaults
    /\ UNCHANGED <<cache, provider, held>>
    /\ Stays

\* lines 213-224 (256-275): the clone of a defaults document, the loop over
\* the route, the assignment, up to `await this.cache.set(...)`; cache.set
\* stores before it suspends
AfterFetch(c) ==
    /\ calls[c].pc = "fetch"
    /\ LET me == calls[c]
           t == me.target
           cur == Content(me.ref, t)
           ref == IF IsDefault(cur) THEN c ELSE me.ref
           start == IF IsDefault(cur) THEN CloneDefault(cur) ELSE cur
           walked == createWalk(start, me.key, 1)
           cursor == GetAt(walked, Prefix(me.key))
           refused == IF ~IsArr(cursor) THEN "TypeError: cache.includes is not a function"
                      ELSE IF includes(cursor.a, me.parsedID) THEN "already exists" ELSE ""
           fullObject == IF ~me.array THEN updateOneWalk(start, me.key, 1, me.parsedID)
                         ELSE IF refused # "" THEN walked
                         ELSE ReplaceAt(walked, Prefix(me.key), Arr(push(cursor.a, me.parsedID)))
           fails == me.array /\ refused # ""
       IN /\ calls' = [WithContent(calls, ref, fullObject) EXCEPT
                          ![c].pc = IF fails THEN "failed" ELSE "cacheSet",
                          ![c].error = IF fails THEN refused ELSE "",
                          ![c].ref = ref]
          /\ defaults' = IF ref = "defaults" THEN fullObject ELSE defaults
          /\ cache' = IF ~fails \/ ref = "init" \/ (cacheByRef /\ held[t] = ref)
                      THEN [cache EXCEPT ![t] = fullObject] ELSE cache
          /\ held' = IF ~fails /\ cacheByRef THEN [held EXCEPT ![t] = ref] ELSE held
    /\ UNCHANGED provider
    /\ Stays

\* updateOne, lines 201-202: `settings` is the object _updateOne returned, up
\* to `await this.provider.update(...)`
AfterCacheSet(c) ==
    /\ calls[c].pc = "cacheSet"
    /\ provider' = [provider EXCEPT ![calls[c].target] = Content(calls[c].ref, calls[c].target)]
    /\ calls' = [calls EXCEPT ![c].pc = "persist"]
    /\ UNCHANGED <<cache, defaults, held>>
    /\ Stays

\* updateOne, line 203: the call returns
AfterPersist(c) ==
    /\ calls[c].pc = "persist"
    /\ calls' = [calls EXCEPT ![c].pc = "done"]
    /\ UNCHANGED <<cache, provider, defaults, held>>
    /\ Stays

\* a gateway after init(): the cache holds the provider's documents
ConcInit ==
    /\ schema = NewSchema(defaultSchema, RootPath).node
    /\ file = defaultSchema
    /\ defaults = NewSchema(defaultSchema, RootPath).defaults
    /\ cacheByRef \in BOOLEAN
    /\ \E stored \in SUBSET Targets :
           /\ cache = [t \in Targets |-> IF t \in stored THEN SettledDoc ELSE Absent]
           /\ provider = cache
           /\ held = [t \in Targets |-> IF cacheByRef /\ t \in stored THEN "init" ELSE "none"]
    /\ last = NoCall
    /\ steps = 0
    /\ calls = [c \in Callers |-> Idle]

ConcNext ==
    \/ \E c \in Callers : CallUpdateOne(c)
    \/ \E c \in Callers : AfterValidate(c)
    \/ \E c \in Callers : AfterParse(c)
    \/ \E c \in Callers : AfterFetch(c)
    \/ \E c \in Callers : AfterCacheSet(c)
    \/ \E c \in Callers : AfterPersist(c)

ConcSpec == ConcInit /\ [][ConcNext]_vars

----------------------------------------------------------------------------
(* What the properties speak about *)

StNext == [cache |-> cache', provider |-> provider', defaults |-> defaults']

Mutations == {"createEntry", "updateOne", "updateArray", "reset", "deleteEntry"}

\* the piece a key resolves to, if it resolves to one
Resolves(key) == getPath(schema, key, FALSE).ok
PieceOf(key) == getPath(schema, key, FALSE).path
ScalarKey(key) == Resolves(key) /\ PieceOf(key).array = FALSE
ArrayKey(key) == Resolves(key) /\ PieceOf(key).array = TRUE

\* the normalized value of a raw value for a key
Parses(key, value) == parse(PieceOf(key), value).ok
Normalized(key, value) == Unwrap(parse(PieceOf(key), value).data)

\* the document of a target as a caller sees it, without the marker
EntryOf(st, target) == Del(getEntry(st, target).doc, "default")

\* a document with v at the route, nested under each segment in order, and
\* nothing else changed
RECURSIVE SetAtRoute(_, _, _)
SetAtRoute(doc, route, v) ==
    IF Len(route) = 1 THEN Put(doc, route[1], v)
    ELSE Put(doc, Head(route),
             SetAtRoute(IF Has(doc, Head(route)) THEN Get(doc, Head(route)) ELSE EmptyObj,
                        Tail(route), v))

\* does the document hold a value at the route, and which
RECURSIVE HasAt(_, _)
HasAt(doc, route) ==
    \/ route = <<>>
    \/ IsObj(doc) /\ Has(doc, Head(route)) /\ HasAt(Get(doc, Head(route)), Tail(route))
HasArrayAt(doc, route) == doc # Absent /\ HasAt(doc, route) /\ IsArr(GetAt(doc, route))

\* the stored documents of a target: what the cache slot stands for, and the
\* provider's document
CacheDoc(st, target) == SlotDoc(st, st.cache[target])
ProviderDoc(st, target) == st.provider[target]

----------------------------------------------------------------------------
(* C1 *)

\* C1: after a successful updateOne on a non-array piece the cache and the
\* provider hold, for the target, the prior document with the normalized value
\* at the full route and nothing else changed.
C1_UpdateOneSetsRoute ==
    [][(last'.op = "updateOne" /\ last'.ok /\ ScalarKey(last'.key)) =>
        LET expected == SetAtRoute(EntryOf(St, last'.input), last'.key,
                                   Normalized(last'.key, last'.value))
        IN /\ CacheDoc(StNext, last'.input) = expected
           /\ ProviderDoc(StNext, last'.input) = expected]_vars

----------------------------------------------------------------------------
(* C2 *)

\* C2: after a successful reset the provider holds, for the target, the full
\* prior document with the piece's declared default at the route and nothing
\* else changed.
C2_ResetPersistsDefault ==
    [][(last'.op = "reset" /\ last'.ok) =>
        ProviderDoc(StNext, last'.input) =
            SetAtRoute(EntryOf(St, last'.input), last'.key, PieceOf(last'.key).default)]_vars

----------------------------------------------------------------------------
(* C3 - C6 *)

\* the case of an updateArray step: the call is well formed, the piece is an
\* array piece, the value parses and the target's document holds an array at
\* the route
ArrayCase(action) ==
    /\ last'.op = "updateArray" /\ last'.action = action
    /\ last'.input \in Targets
    /\ ArrayKey(last'.key) /\ Parses(last'.key, last'.value)
    /\ HasArrayAt(EntryOf(St, last'.input), last'.key)

ArrayBefore == GetAt(EntryOf(St, last'.input), last'.key).a
Present == includes(ArrayBefore, Normalized(last'.key, last'.value))

ArrayIs(st, target, key, q) ==
    /\ HasArrayAt(CacheDoc(st, target), key) /\ GetAt(CacheDoc(st, target), key).a = q
    /\ HasArrayAt(ProviderDoc(st, target), key) /\ GetAt(ProviderDoc(st, target), key).a = q

\* what the stored documents held at the route before the step is what they
\* hold after it
ArrayUntouched ==
    \A doc \in {<<CacheDoc(St, last'.input), CacheDoc(StNext, last'.input)>>,
                <<ProviderDoc(St, last'.input), ProviderDoc(StNext, last'.input)>>} :
        /\ (doc[1] = Absent) = (doc[2] = Absent)
        /\ doc[1] # Absent =>
             /\ HasAt(doc[1], last'.key) = HasAt(doc[2], last'.key)
             /\ HasAt(doc[1], last'.key) => GetAt(doc[1], last'.key) = GetAt(doc[2], last'.key)

\* C3: updateArray 'add' of a value that is not in the target's array succeeds
\* and the array, in cache and provider, is the previous array with the
\* normalized value appended.
C3_AddAppends ==
    [][(ArrayCase("add") /\ ~Present) =>
        /\ last'.ok
        /\ ArrayIs(StNext, last'.input, last'.key,
                   Append(ArrayBefore, Normalized(last'.key, last'.value)))]_vars

\* C4: updateArray 'add' of a value already in the target's array fails with
\* the "already exists" error and leaves the stored array unchanged.
C4_AddDuplicateFails ==
    [][(ArrayCase("add") /\ Present) =>
        /\ ~last'.ok /\ last'.error = "already exists"
        /\ ArrayUntouched]_vars

\* C5: updateArray 'remove' of a value that is not in the target's array fails
\* with the "does not exist" error and leaves the stored array unchanged.
C5_RemoveMissingFails ==
    [][(ArrayCase("remove") /\ ~Present) =>
        /\ ~last'.ok /\ last'.error = "does not exist"
        /\ ArrayUntouched]_vars

\* C6: for a value not in the target's array, 'add' and then 'remove' of the
\* value both succeed and the array is again what it was before the add.
C6_AddThenRemoveRestores ==
    [][(ArrayCase("add") /\ ~Present) =>
        /\ last'.ok
        /\ LET removed == updateArray(StNext, schema, cacheByRef, last'.input, "remove",
                                      last'.key, last'.value, last'.avoid)
           IN removed.ok /\ ArrayIs(removed.st, last'.input, last'.key, ArrayBefore)]_vars

----------------------------------------------------------------------------
(* C7 *)

\* C7: on an array piece every updateOne has the outcome, the returned value
\* and piece, and the resulting cache, provider and defaults of updateArray
\* 'add' with the same target, key and value.
C7_UpdateOneIsArrayAdd ==
    [][(last'.op = "updateOne" /\ ArrayKey(last'.key)) =>
        LET viaAdd == updateArray(St, schema, cacheByRef, last'.input, "add",
                                  last'.key, last'.value, last'.avoid)
        IN /\ updateOne(St, schema, cacheByRef, last'.input,
                        last'.key, last'.value, last'.avoid) = viaAdd
           /\ StNext = viaAdd.st
           /\ last'.ok = viaAdd.ok /\ last'.error = viaAdd.error]_vars

\* an updateOne on an array piece of a resolvable target got as far as the
\* array code
C7_Witness ==
    /\ last.op = "updateOne" /\ last.input \in Targets
    /\ ArrayKey(last.key) /\ Parses(last.key, last.value)
    /\ last.error = "TypeError: cache.includes is not a function"

----------------------------------------------------------------------------
(* C8 - C10 *)

\* C8: after a successfully completed entry mutation on a target, the cache
\* entry and the provider document of the target are equal.
C8_CacheMirrorsProvider ==
    (last.op \in Mutations /\ last.ok) =>
        CacheDoc(St, last.input) = ProviderDoc(St, last.input)

\* C9: an updateOne, updateArray or reset on a target with no stored entry
\* leaves the defaults document handed out for absent entries as it was.
C9_DefaultsTemplateKept ==
    [][(/\ last'.op \in {"updateOne", "updateArray", "reset"}
        /\ last'.input \in Targets
        /\ cache[last'.input] = Absent) =>
        getEntry(StNext, "default").doc = getEntry(St, "default").doc]_vars

\* C10: no document of the provider carries the `default` marker.
C10_MarkerNeverPersisted ==
    \A target \in Targets :
        provider[target] # Absent => ~Has(provider[target], "default")

----------------------------------------------------------------------------
(* C11 - C12: migration propagation *)

ScNext == [schema |-> schema', file |-> file', st |-> StNext]

\* the folder a schema step was called on, before the step, and the name given
ThisFolder == NodeAt(schema, FolderRoute(last'.folder))
Name == Head(last'.key)
Stored == {id \in Targets : provider[id] # Absent}

\* a schema step that gets as far as propagating an addition
AddPropagates ==
    /\ last'.op \in {"addKey", "addFolder"} /\ last'.forced
    /\ Name \notin ThisFolder.keys
    /\ last'.op = "addKey" => last'.value # Null
    /\ last'.op = "addFolder" => ~ConstructorThrows(last'.value)
    /\ ~toJSONThrows(schema)
    /\ Stored # {}

\* a schema step that gets as far as propagating a removal
RemovePropagates ==
    /\ last'.op \in {"removeKey", "removeFolder"} /\ last'.forced
    /\ Name \in ThisFolder.keys /\ Name \in DOMAIN ThisFolder.kids
    /\ last'.op = "removeFolder" => ThisFolder.kids[Name].type = "Folder"
    /\ ~toJSONThrows(schema)
    /\ Stored # {}

\* a document without the key of the object at the route, nothing else changed
DelAtRoute(doc, route, key) ==
    IF HasAt(doc, route) /\ IsObj(GetAt(doc, route))
    THEN ReplaceAt(doc, route, Del(GetAt(doc, route), key))
    ELSE doc

\* C11: an addKey or addFolder that propagates, on any folder, the root
\* included, succeeds and every document of the provider then holds the new
\* child's default at the folder's path under the new name, nothing else changed.
C11_AddPropagatesDefault ==
    [][AddPropagates =>
        /\ last'.ok
        /\ \A id \in Stored :
             provider'[id] =
                 SetAtRoute(provider[id], FolderRoute(last'.folder) \o last'.key,
                            GetAt(defaults', FolderRoute(last'.folder) \o last'.key))]_vars

\* C12: a removeKey or removeFolder that propagates, on any folder, the root
\* included, succeeds and every document of the provider then lacks the name
\* at the folder's path, nothing else changed.
C12_RemovePropagatesDelete ==
    [][RemovePropagates =>
        /\ last'.ok
        /\ \A id \in Stored :
             provider'[id] = DelAtRoute(provider[id], FolderRoute(last'.folder), Name)]_vars

----------------------------------------------------------------------------
(* C13 - C14: sync *)

\* C13: sync of a resolvable target that has a document succeeds, the cache
\* entry of the target is then the provider's document and the other cache
\* entries are as before.
C13_SyncOneReloads ==
    [][(last'.op = "sync" /\ last'.input \in Stored) =>
        /\ last'.ok
        /\ CacheDoc(StNext, last'.input) = provider[last'.input]
        /\ \A id \in Targets \ {last'.input} : cache'[id] = cache[id]]_vars

\* C14: after sync(null) the cache holds, for every document of the provider,
\* an entry under the document's id that equals the document.
C14_SyncAllMirrors ==
    (last.op = "sync" /\ last.input = "null") =>
        /\ last.ok
        /\ \A id \in Targets :
             provider[id] # Absent => CacheDoc(St, id) = provider[id]

\* a sync(null) over a document that a reset wrote to the provider only
C14_Witness ==
    /\ last.op = "sync" /\ last.input = "null" /\ last.ok
    /\ \E id \in Targets :
         /\ provider[id] # Absent /\ Has(provider[id], "modlogs")
         /\ Get(provider[id], "modlogs") = One("data", Null)
         /\ cache[id] = provider[id]

----------------------------------------------------------------------------
(* C15 - C19: the schema tree *)

IsSorted(q) == \A i, j \in 1..Len(q) : i < j => localeCompare(q[i], q[j]) <= 0
NoDuplicates(q) == \A i, j \in 1..Len(q) : q[i] = q[j] => i = j

\* keys, keyArray and the attached children of every folder name the same
\* children, each once
RECURSIVE WellKeyed(_)
WellKeyed(node) ==
    node.type = "Folder" =>
        /\ Range(node.keyArray) = node.keys
        /\ NoDuplicates(node.keyArray)
        /\ DOMAIN node.kids = node.keys
        /\ \A k \in DOMAIN node.kids : WellKeyed(node.kids[k])

RECURSIVE AllSorted(_)
AllSorted(node) ==
    node.type = "Folder" =>
        /\ IsSorted(node.keyArray)
        /\ \A k \in DOMAIN node.kids : AllSorted(node.kids[k])

\* the defaults document of a folder has the folder's child names as its
\* keys: the default of a piece, the defaults document of a folder
RECURSIVE Mirrors(_, _)
Mirrors(node, dflt) ==
    /\ IsObj(dflt)
    /\ DOMAIN dflt.o = node.keys
    /\ \A k \in node.keys \cap DOMAIN node.kids :
         IF node.kids[k].type = "Folder" THEN Mirrors(node.kids[k], dflt.o[k])
         ELSE dflt.o[k] = node.kids[k].default

\* C15: in every folder the set keys and the sequence keyArray hold the same
\* names, keyArray holds no name twice and every name has its attached child.
C15_KeysAgree == WellKeyed(schema)

\* C16: the keyArray of every folder is in alphabetical order.
C16_KeyArraySorted == AllSorted(schema)

\* C17: addKey or addFolder with the name of a child of the folder fails with
\* the already-exists error and changes neither the schema tree, nor its
\* defaults, nor the persisted declaration, nor a document of the provider.
C17_AddExistingFails ==
    [][(last'.op \in {"addKey", "addFolder"} /\ Name \in DOMAIN ThisFolder.kids) =>
        /\ ~last'.ok /\ last'.error = "already exists"
        /\ ScNext = Sc]_vars

\* an add of a name the folder holds was refused
C17_Witness ==
    /\ last.op \in {"addKey", "addFolder"} /\ last.error = "already exists"
    /\ Head(last.key) \in DOMAIN NodeAt(schema, FolderRoute(last.folder)).kids

\* C18: the defaults document of every folder has exactly the folder's child
\* names as keys, with the default of each piece and the defaults document of
\* each folder.
C18_DefaultsMirrorTree == Mirrors(schema, defaults)

\* C19: a schema built from the declaration toJSON gives is the tree it was
\* taken from: same folders, same names in the same order, same pieces, same
\* defaults document.
C19_DeclarationRoundTrip ==
    /\ ~toJSONThrows(schema)
    /\ NewSchema(toJSON(schema), RootPath).node = schema
    /\ NewSchema(toJSON(schema), RootPath).defaults = defaults

----------------------------------------------------------------------------
(* C20 *)

\* C20: a createEntry that follows a successful createEntry of the same target
\* either overwrites or is rejected; after it the cache entry and the provider
\* document of the target are the same document: the new one, or the one of
\* the first call.
C20_CreateTwiceKeepsPair ==
    [][(/\ last.op = "createEntry" /\ last.ok
        /\ last'.op = "createEntry" /\ last'.input = last.input) =>
        /\ CacheDoc(StNext, last'.input) = ProviderDoc(StNext, last'.input)
        /\ IF last'.ok
           THEN ProviderDoc(StNext, last'.input) =
                   IF last'.value = DefaultsRef THEN getEntry(St, "default").doc
                   ELSE last'.value
           ELSE /\ cache' = cache
                /\ provider' = provider]_vars

\* a second createEntry of a target was rejected by the provider
C20_Witness ==
    /\ last.op = "createEntry" /\ last.error = "provider conflict"
    /\ cache[last.input] # Absent
    /\ CacheDoc(St, last.input) = ProviderDoc(St, last.input)

----------------------------------------------------------------------------
(* C21 *)

\* what the two readers hand out for an id
Handed(st, id) == {getEntry(st, id).doc, fetchEntry(st, cacheByRef, id).doc}

\* C21: deleteEntry succeeds whether or not the target had a document; after
\* it neither the provider nor the cache holds the target, and getEntry and
\* fetchEntry of the target hand out the schema's defaults document with the
\* marker set, the document getEntry hands out for "default".
C21_DeleteFallsBackToDefaults ==
    (last.op = "deleteEntry") =>
        /\ last.ok
        /\ provider[last.input] = Absent /\ cache[last.input] = Absent
        /\ Handed(St, last.input) = {Put(defaults, "default", Bool(TRUE))}
        /\ Handed(St, last.input) = {getEntry(St, "default").doc}

\* a deleteEntry of a target that never had a document, beside a stored one
C21_Witness ==
    /\ last.op = "deleteEntry" /\ last.ok
    /\ cache[last.input] = Absent
    /\ \E other \in Targets : cache[other] # Absent /\ provider[other] # Absent

----------------------------------------------------------------------------
(* C22 *)

\* the document holds, at the key of a caller's call, the value the call wrote
Written(doc, c) ==
    /\ doc # Absent /\ HasAt(doc, calls[c].key)
    /\ GetAt(doc, calls[c].key) = calls[c].parsedID

\* two calls that both returned, on the same target and different keys
BothReturned(c, d) ==
    /\ c # d
    /\ calls[c].pc = "done" /\ calls[d].pc = "done"
    /\ calls[c].target = calls[d].target
    /\ calls[c].key # calls[d].key

\* C22: overlapping updateOne calls are not coordinated.  When two calls on
\* different keys of one target both read the target's entry as absent, both
\* return successfully and the target's document, in the cache and in the
\* provider, holds the value of one of them only: an update is lost.
C22_StaleReadsLoseAnUpdate ==
    \A c, d \in Callers :
        (BothReturned(c, d) /\ ~calls[c].found /\ ~calls[d].found) =>
            \A doc \in {cache[calls[c].target], provider[calls[c].target]} :
                Written(doc, c) # Written(doc, d)

\* both calls returned and cache and provider hold the value of b alone
C22_Witness ==
    /\ BothReturned("a", "b")
    /\ cache[calls["a"].target] = provider[calls["a"].target]
    /\ Written(cache[calls["a"].target], "b")
    /\ ~Written(cache[calls["a"].target], "a")

----------------------------------------------------------------------------
(* C23 *)

\* C23: an entry operation on a target changes, for no other target, the
\* cache entry, the provider document or the document getEntry and
\* fetchEntry hand out.
C23_OtherTargetsUntouched ==
    [][(last'.op \in Mutations /\ last'.input \in Targets) =>
        \A other \in Targets \ {last'.input} :
            /\ cache'[other] = cache[other]
            /\ provider'[other] = provider[other]
            /\ getEntry(StNext, other).doc = getEntry(St, other).doc
            /\ fetchEntry(StNext, cacheByRef, other).doc = fetchEntry(St, cacheByRef, other).doc]_vars

----------------------------------------------------------------------------
(* C24 - C25: getPath *)

\* the position of the first segment of a route that is not a child of the
\* folder reached so far; 0 when there is none
RECURSIVE FirstMissing(_, _, _)
FirstMissing(node, route, i) ==
    IF i > Len(route) \/ node.type # "Folder" THEN 0
    ELSE IF route[i] \notin node.keys THEN i
    ELSE IF route[i] \notin DOMAIN node.kids THEN 0
    ELSE FirstMissing(node.kids[route[i]], route, i + 1)

\* C24: a call whose key has a segment that is missing from the schema, at
\* any depth, fails with the "does not exist" error of getPath, and the error
\* names the dotted prefix of the key up to and including the first missing
\* segment.
C24_MissingSegmentNamed ==
    [][(/\ last'.op \in {"updateOne", "updateArray", "reset"}
        /\ last'.input \in Targets
        /\ FirstMissing(schema, last'.key, 1) > 0) =>
        /\ ~last'.ok /\ last'.error = "does not exist"
        /\ getPath(schema, last'.key, last'.avoid).named =
               SubSeq(last'.key, 1, FirstMissing(schema, last'.key, 1))]_vars

\* every piece below a node resolves, by the chain of names that leads to it,
\* to itself with that chain as route and as its path; a chain that leads to a
\* folder does not resolve
RECURSIVE ResolvesBelow(_, _)
ResolvesBelow(node, names) ==
    IF node.type = "Folder"
    THEN /\ names # <<>> =>
              /\ ~getPath(schema, names, FALSE).ok
              /\ getPath(schema, names, FALSE).error = "choose one of the following keys"
         /\ \A k \in DOMAIN node.kids : ResolvesBelow(node.kids[k], Append(names, k))
    ELSE /\ getPath(schema, names, FALSE) = [ok |-> TRUE, path |-> node, route |-> names]
         /\ node.path = names

\* C25: getPath of the dot-joined names that lead from the root to a piece,
\* through folders loaded from the declaration or added by addFolder and
\* addKey, returns that piece and the names as route, and the piece's path is
\* that key; a key that ends at a folder fails.
C25_PiecesResolve == ResolvesBelow(schema, <<>>)

\* a piece inside a folder that addFolder added resolves
C25_Witness ==
    /\ last.op = "addFolder" /\ last.ok /\ last.folder = <<"channels">>
    /\ "channels" \in DOMAIN schema.kids
    /\ "nope" \in DOMAIN schema.kids["channels"].kids
    /\ getPath(schema, <<"channels", "nope", "list">>, FALSE).ok
    /\ getPath(schema, <<"channels", "nope", "list">>, FALSE).path.path = <<"channels", "nope", "list">>

----------------------------------------------------------------------------
(* C26 *)

\* C26: an updateOne, updateArray or reset that fails, at whatever stage, has
\* written neither to the cache nor to the provider: their documents are what
\* they were before the call.
C26_FailureWritesNothing ==
    [][(last'.op \in {"updateOne", "updateArray", "reset"} /\ ~last'.ok) =>
        /\ cache' = cache
        /\ provider' = provider]_vars

----------------------------------------------------------------------------
(* C27 *)

\* C27: after an addKey, addFolder, removeKey or removeFolder that propagates
\* and succeeds, the cached document of every stored entry is the provider's
\* migrated document, where the two agreed before the call.
C27_CacheFollowsMigration ==
    [][(/\ last'.op \in {"addKey", "addFolder", "removeKey", "removeFolder"}
        /\ last'.forced /\ last'.ok
        /\ \A id \in Stored : CacheDoc(St, id) = provider[id]) =>
        \A id \in Stored : CacheDoc(StNext, id) = provider'[id]]_vars

====
